---- MODULE Spec2Model ----
(***************************************************************************)
(* optifuse, src/optifuse/font.py: the unicode-range partition planner     *)
(* (_chunk_256, _partition_limited_chunks, _partition_han_chunks,          *)
(* _by256_with_visibility, _auto_ranges) and the run of                    *)
(* subset_and_convert: planning, task preparation, the thread pool that    *)
(* subsets and encodes one job per range, result collection and CSS        *)
(* emission.                                                               *)
(*                                                                         *)
(* Text (labels, family names, file names) is a sequence of one-character  *)
(* strings, so that formatting, space replacement and Path.with_suffix are *)
(* computed character by character.                                        *)
(***************************************************************************)
EXTENDS Integers, Sequences, FiniteSets, TLC

VARIABLES coverage, split_strategy, family, stem, max_workers,
          pc, ranges, tasks, fut, written, collected,
          created, css_records, css_file

vars == <<coverage, split_strategy, family, stem, max_workers,
          pc, ranges, tasks, fut, written, collected,
          created, css_records, css_file>>

(***************************************************************************)
(* Program constants.                                                      *)
(***************************************************************************)
MAX_CHUNK_SIZE == 300

MIN_CHUNK_SIZE == 128

LATIN_BLOCKS == << <<32, 126>>, <<160, 255>>, <<256, 383>> >>

HAN_BLOCKS ==
    << <<13312, 19903>>, <<19968, 40959>>, <<131072, 173791>>,
       <<173824, 177983>>, <<177984, 178207>>, <<178208, 183983>>,
       <<183984, 191471>>, <<196608, 201551>> >>

None == <<"None">>

(***************************************************************************)
(* Bounds of the model.                                                    *)
(***************************************************************************)
\* the single runs of SpecChunk are 301..(MAX_CHUNK_SIZE + MaxRunExtra) long
MaxRunExtra == 60

\* at most this many codepoints of SparseCodepoints make up a coverage of
\* SpecSmall
MaxSparse == 4

\* at most this many pieces of PlanPieces make up a coverage of SpecPlan
MaxPieces == 3

\* pool sizes 1..MaxWorkers are tried
MaxWorkers == 2

(***************************************************************************)
(* Small helpers on sets and sequences.                                    *)
(***************************************************************************)
SetMin(S) == CHOOSE x \in S : \A y \in S : x <= y

SetMax(S) == CHOOSE x \in S : \A y \in S : y <= x

Range(s) == {s[i] : i \in 1..Len(s)}

\* sorted(cps): the ascending list of a set of integers, read off the
\* interval from its least to its greatest element
Sorted(S) ==
    IF S = {} THEN <<>>
    ELSE LET lo == SetMin(S)
             hi == SetMax(S)
         IN  SelectSeq([i \in 1..(hi - lo + 1) |-> lo + i - 1], LAMBDA x : x \in S)

RECURSIVE Flatten(_)
Flatten(ss) == IF ss = <<>> THEN <<>> ELSE Head(ss) \o Flatten(Tail(ss))

(***************************************************************************)
(* Text formatting.                                                        *)
(***************************************************************************)
HexDigits ==
    <<"0", "1", "2", "3", "4", "5", "6", "7",
      "8", "9", "A", "B", "C", "D", "E", "F">>

RECURSIVE HexStr(_)
HexStr(n) ==
    IF n < 16 THEN <<HexDigits[n + 1]>>
    ELSE HexStr(n \div 16) \o <<HexDigits[(n % 16) + 1]>>

\* f"{n:04X}": upper-case hex, zero-padded to a minimum width of four
Hex04(n) ==
    LET s == HexStr(n) IN
    IF Len(s) >= 4 THEN s
    ELSE [i \in 1..(4 - Len(s)) |-> "0"] \o s

\* f"u{block_start:04X}-{block_end:04X}"
BlockLabel(start, end) == <<"u">> \o Hex04(start) \o <<"-">> \o Hex04(end)

PrefixLatin == <<"l", "a", "t", "i", "n">>

PrefixHan == <<"h", "a", "n">>

PrefixVis == <<"v", "i", "s">>

PrefixInvis == <<"i", "n", "v", "i", "s">>

LabelFull == <<"f", "u", "l", "l">>

\* str.replace(' ', '-')
ReplaceSpaces(s) == [i \in 1..Len(s) |-> IF s[i] = " " THEN "-" ELSE s[i]]

UnicodeRange(start, end, label) == [start |-> start, end |-> end, label |-> label]

\* UnicodeRange.to_css
to_css(ur) == <<"U", "+">> \o Hex04(ur.start) \o <<"-">> \o Hex04(ur.end)

(***************************************************************************)
(* Classification.                                                         *)
(***************************************************************************)
\* unicodedata.category(chr(cp)) in {Cc, Cf, Cs, Co, Cn}, as the Unicode
\* database answers on the codepoints the model draws (0x0000-0x024F,
\* 0x3400-0x53FF, surrogates, the BMP private use area); out of range is Cn
_is_private_or_invisible(cp) ==
    \/ cp < 0 \/ cp > 1114111
    \/ (0 <= cp /\ cp <= 31)
    \/ (127 <= cp /\ cp <= 159)
    \/ cp = 173
    \/ (55296 <= cp /\ cp <= 57343)
    \/ (57344 <= cp /\ cp <= 63743)

_is_han(cp) ==
    \E b \in 1..Len(HAN_BLOCKS) : HAN_BLOCKS[b][1] <= cp /\ cp <= HAN_BLOCKS[b][2]

_collect_in_blocks(cov, blocks) ==
    {cp \in cov : \E b \in 1..Len(blocks) : blocks[b][1] <= cp /\ cp <= blocks[b][2]}

\* _split_visible_sets: <<visible, invisible_or_pua>>
_split_visible_sets(cov) ==
    LET visible == {cp \in cov : ~_is_private_or_invisible(cp)} IN
    <<visible, cov \ visible>>

(***************************************************************************)
(* Partitioning.                                                           *)
(***************************************************************************)
\* block_start = (cp // 256) * 256
BlockStart(cp) == (cp \div 256) * 256

\* mutation: the block reaches one codepoint into the next block
BlockEnd_Plus256(block_start) == block_start + 256

\* block_end = block_start + 255
BlockEnd(block_start) == block_start + 255

\* _chunk_256: one range per 256-aligned block that holds a codepoint,
\* in ascending block order
_chunk_256(cov) ==
    LET starts == Sorted({BlockStart(cp) : cp \in cov}) IN
    [i \in 1..Len(starts) |->
        UnicodeRange(starts[i], BlockEnd(starts[i]),
                     BlockLabel(starts[i], BlockEnd(starts[i])))]

\* mutation: the cap is tested with <=, a chunk grows to MAX_CHUNK_SIZE + 1
ChunkEnd_CapPlusOne(sorted_cps, s) ==
    LET limit == IF s + MAX_CHUNK_SIZE < Len(sorted_cps)
                 THEN s + MAX_CHUNK_SIZE ELSE Len(sorted_cps)
        breaks == {k \in (s + 1)..limit : sorted_cps[k] # sorted_cps[k - 1] + 1}
    IN  IF breaks = {} THEN limit ELSE SetMin(breaks) - 1

\* the chunk that the first loop of _partition_limited_chunks opens at
\* position s of the sorted list ends at position ChunkEnd: `current` grows
\* while cp == current[-1] + 1 and len(current) < MAX_CHUNK_SIZE
ChunkEnd(sorted_cps, s) ==
    LET limit == IF s + MAX_CHUNK_SIZE - 1 < Len(sorted_cps)
                 THEN s + MAX_CHUNK_SIZE - 1 ELSE Len(sorted_cps)
        breaks == {k \in (s + 1)..limit : sorted_cps[k] # sorted_cps[k - 1] + 1}
    IN  IF breaks = {} THEN limit ELSE SetMin(breaks) - 1

RECURSIVE RunChunks(_, _)
\* the first loop of _partition_limited_chunks: contiguous runs of the
\* sorted codepoints, each capped at MAX_CHUNK_SIZE, from position s on
RunChunks(sorted_cps, s) ==
    IF s > Len(sorted_cps) THEN <<>>
    ELSE LET e == ChunkEnd(sorted_cps, s) IN
         <<SubSeq(sorted_cps, s, e)>> \o RunChunks(sorted_cps, e + 1)

RECURSIVE Absorb_StrictCap(_, _, _)
\* mutation: a merge that reaches MAX_CHUNK_SIZE exactly is refused
Absorb_StrictCap(chunks, group, i) ==
    IF Len(group) < MIN_CHUNK_SIZE /\ i + 1 <= Len(chunks)
    THEN IF Len(group) + Len(chunks[i + 1]) < MAX_CHUNK_SIZE
         THEN Absorb_StrictCap(chunks, group \o chunks[i + 1], i + 1)
         ELSE <<group, i>>
    ELSE <<group, i>>

\* mutation: the inner loop is an `if`, at most one chunk is absorbed
Absorb_Once(chunks, group, i) ==
    IF Len(group) < MIN_CHUNK_SIZE /\ i + 1 <= Len(chunks)
       /\ Len(group) + Len(chunks[i + 1]) <= MAX_CHUNK_SIZE
    THEN <<group \o chunks[i + 1], i + 1>>
    ELSE <<group, i>>

RECURSIVE Absorb(_, _, _)
\* the inner while loop of the merge: <<group, i>> after absorbing
Absorb(chunks, group, i) ==
    IF Len(group) < MIN_CHUNK_SIZE /\ i + 1 <= Len(chunks)
    THEN IF Len(group) + Len(chunks[i + 1]) <= MAX_CHUNK_SIZE
         THEN Absorb(chunks, group \o chunks[i + 1], i + 1)
         ELSE <<group, i>>
    ELSE <<group, i>>

RECURSIVE MergeChunks(_, _, _)
\* the outer while loop of the merge (i is the 1-based index of the chunk)
MergeChunks(chunks, merged, i) ==
    IF i > Len(chunks) THEN merged
    ELSE LET a == Absorb(chunks, chunks[i], i) IN
         MergeChunks(chunks, Append(merged, a[1]), a[2] + 1)

\* the merged groups of a codepoint set
ChunkGroups(cps) == MergeChunks(RunChunks(Sorted(cps), 1), <<>>, 1)

\* mutation: the range ends one codepoint after the last of the group
GroupRange_EndPlusOne(grp, prefix) ==
    UnicodeRange(grp[1], grp[Len(grp)] + 1,
                 prefix \o <<"-">> \o BlockLabel(grp[1], grp[Len(grp)] + 1))

\* start, end = grp[0], grp[-1]
GroupRange(grp, prefix) ==
    UnicodeRange(grp[1], grp[Len(grp)],
                 prefix \o <<"-">> \o BlockLabel(grp[1], grp[Len(grp)]))

_partition_limited_chunks(cps, prefix) ==
    LET merged == ChunkGroups(cps) IN
    [g \in 1..Len(merged) |-> GroupRange(merged[g], prefix)]

_partition_han_chunks(han_cps) ==
    LET merged == ChunkGroups(han_cps) IN
    [g \in 1..Len(merged) |-> GroupRange(merged[g], PrefixHan)]

\* mutation: the category prefix is not put in front of the label
Relabel_NoPrefix(rs, prefix) == rs

\* the list comprehension that re-labels the ranges of _chunk_256
Relabel(rs, prefix) ==
    [i \in 1..Len(rs) |->
        UnicodeRange(rs[i].start, rs[i].end, prefix \o <<"-">> \o rs[i].label)]

_by256_with_visibility(cov) ==
    LET split == _split_visible_sets(cov) IN
    Relabel(_chunk_256(split[1]), PrefixVis)
        \o Relabel(_chunk_256(split[2]), PrefixInvis)

\* the four passes of _auto_ranges: the Latin-common visible codepoints,
\* the Han codepoints of the remaining visible ones, the visible rest and
\* the invisible/private/unassigned codepoints
AutoPasses(cov) ==
    LET split == _split_visible_sets(cov)
        visible == split[1]
        invis == split[2]
        latin_used == _collect_in_blocks(visible, LATIN_BLOCKS)
        remaining1 == visible \ latin_used
        han_used == {cp \in remaining1 : _is_han(cp)}
        remaining2 == remaining1 \ han_used
    IN  <<latin_used, han_used, remaining2, invis>>

\* mutation: the visible 256-blocks are appended before the Han chunks
_auto_ranges_VisBeforeHan(cov) ==
    LET p == AutoPasses(cov) IN
    _partition_limited_chunks(p[1], PrefixLatin)
        \o Relabel(_chunk_256(p[3]), PrefixVis)
        \o _partition_han_chunks(p[2])
        \o Relabel(_chunk_256(p[4]), PrefixInvis)

_auto_ranges(cov) ==
    LET p == AutoPasses(cov) IN
    _partition_limited_chunks(p[1], PrefixLatin)
        \o _partition_han_chunks(p[2])
        \o Relabel(_chunk_256(p[3]), PrefixVis)
        \o Relabel(_chunk_256(p[4]), PrefixInvis)

\* mutation: strategy none always spans the window of the empty coverage
PlanOf_NoneFixedWindow(cov, strategy) ==
    IF strategy = "none"
    THEN <<UnicodeRange(0, 65535, LabelFull)>>
    ELSE IF strategy = "by-256" THEN _by256_with_visibility(cov)
    ELSE _auto_ranges(cov)

\* the strategy dispatch of subset_and_convert
PlanOf(cov, strategy) ==
    IF strategy = "none"
    THEN <<UnicodeRange(IF cov # {} THEN SetMin(cov) ELSE 0,
                        IF cov # {} THEN SetMax(cov) ELSE 65535,
                        LabelFull)>>
    ELSE IF strategy = "by-256" THEN _by256_with_visibility(cov)
    ELSE _auto_ranges(cov)

\* mutation: the lower comparison is strict
UnicodesOf_StrictStart(ur, cov) == {cp \in cov : ur.start < cp /\ cp <= ur.end}

\* unicodes = [cp for cp in coverage if ur.start <= cp <= ur.end]
UnicodesOf(ur, cov) == {cp \in cov : ur.start <= cp /\ cp <= ur.end}

\* the "Prepare tasks" loop: ranges without a codepoint are skipped
TasksOf(rs, cov) ==
    LET one(ur) == IF UnicodesOf(ur, cov) = {} THEN <<>>
                   ELSE << [ur |-> ur, unicodes |-> UnicodesOf(ur, cov)] >>
    IN  Flatten([i \in 1..Len(rs) |-> one(rs[i])])

(***************************************************************************)
(* Output file names.                                                      *)
(***************************************************************************)
\* str.rfind('.'): the last 1-based position of a dot, 0 when there is none
LastDot(name) ==
    LET dots == {i \in 1..Len(name) : name[i] = "."} IN
    IF dots = {} THEN 0 ELSE SetMax(dots)

\* PurePath.suffix: name[i:] when the last dot is neither the first nor
\* the last character of the name, else ''
Suffix(name) ==
    LET i == LastDot(name) IN
    IF 1 < i /\ i < Len(name) THEN SubSeq(name, i, Len(name)) ELSE <<>>

\* PurePath.with_suffix: the old suffix, when there is one, is replaced
with_suffix(name, suffix) ==
    SubSeq(name, 1, Len(name) - Len(Suffix(name))) \o suffix

ExtWoff2 == <<".", "w", "o", "f", "f", "2">>

ExtWoff == <<".", "w", "o", "f", "f">>

ExtCss == <<".", "c", "s", "s">>

\* fam = family or source.stem
Fam == IF family = None \/ family = <<>> THEN stem ELSE family

\* out_base = dest_dir / f"{fam.replace(' ', '-')}-{ur.label}" (its name)
OutBase(ur) == ReplaceSpaces(Fam) \o <<"-">> \o ur.label

\* _save_as_woff_variants: the two paths, in the order they are saved
_save_as_woff_variants(out_base) ==
    <<with_suffix(out_base, ExtWoff2), with_suffix(out_base, ExtWoff)>>

\* one @font-face block of _emit_css; weight and style are copied verbatim
\* from the arguments and are left out
FontFace(rec) ==
    [font_family |-> Fam,
     url_woff2 |-> rec.stem \o ExtWoff2,
     url_woff |-> rec.stem \o ExtWoff,
     unicode_range |-> to_css(rec.ur)]

_emit_css(records) == [i \in 1..Len(records) |-> FontFace(records[i])]

CssPath == ReplaceSpaces(Fam) \o ExtCss

(***************************************************************************)
(* Inputs.                                                                 *)
(***************************************************************************)
Strategies == {"none", "by-256", "auto"}

\* family names: none given, one with a space, one with a dot
Families == {None, <<"A", " ", "B">>, <<"A", ".", "B">>}

\* source.stem of "S.ttf" and of "S.T.ttf"
Stems == {<<"S">>, <<"S", ".", "T">>}

\* codepoints of the coverages of a whole run: 'A', DEL, U+0181
RunCodepoints == {65, 127, 385}

\* intervals that make up the coverages of the planning specification
PlanPieces ==
    << <<65, 67>>, <<70, 70>>, <<127, 127>>, <<32, 126>>, <<160, 255>>,
       <<256, 383>>, <<384, 385>>, <<13312, 13313>>, <<19904, 19904>>,
       <<19968, 20268>>, <<57344, 57344>>, <<32, 365>> >>

PlanCoverages ==
    {UNION {PlanPieces[i][1]..PlanPieces[i][2] : i \in P} :
        P \in {Q \in SUBSET (1..Len(PlanPieces)) : Cardinality(Q) <= MaxPieces}}

\* first codepoints of the single Han runs: CJK Extension A, CJK Unified
ChunkStarts == {13312, 19968}

\* lengths of the single Han runs: just over the cap, and remainders
\* around MIN_CHUNK_SIZE after one or two full chunks
RunLengths ==
    ((MAX_CHUNK_SIZE + 1)..(MAX_CHUNK_SIZE + MaxRunExtra))
        \cup {427, 428, 429, 600, 601, 728, 729}

\* coverages that are one contiguous run of Han codepoints
ChunkRuns == {a..(a + n - 1) : a \in ChunkStarts, n \in RunLengths}

\* scattered Latin-common and Han codepoints
SparseCodepoints == {65, 66, 67, 70, 122, 256, 383, 13312, 19968, 19969}

\* small inputs of the chunk partitioner: sparse sets, and the Latin runs
\* 0x20-0x7E and 0xA0.. with 125 to 129 visible codepoints in all
SmallCoverages ==
    {C \in SUBSET SparseCodepoints : Cardinality(C) <= MaxSparse}
        \cup {(32..126) \cup (160..(160 + k)) : k \in 30..34}

(***************************************************************************)
(* The run of subset_and_convert.                                          *)
(***************************************************************************)
Jobs == 1..Len(tasks)

Resolved(j) == fut[j] \in {"ok", "failed"}

\* mutation: shutdown(wait=False), the with block is left at once
PoolDrained_NoWait == TRUE

\* ThreadPoolExecutor.__exit__ is shutdown(wait=True): it returns once
\* every submitted future has finished
PoolDrained == \A j \in Jobs : Resolved(j)

InitOf(coverages) ==
    /\ coverage \in coverages
    /\ split_strategy \in Strategies
    /\ family \in Families
    /\ stem \in Stems
    /\ family # None => stem = <<"S">>
    /\ max_workers \in 1..MaxWorkers
    /\ pc = "plan"
    /\ ranges = <<>>
    /\ tasks = <<>>
    /\ fut = <<>>
    /\ written = <<>>
    /\ collected = {}
    /\ created = <<>>
    /\ css_records = <<>>
    /\ css_file = None

Init == InitOf(SUBSET RunCodepoints)

InitPlan ==
    /\ InitOf(PlanCoverages)
    /\ family = None
    /\ stem = <<"S">>
    /\ max_workers = 1

InitChunk ==
    /\ InitOf(ChunkRuns)
    /\ split_strategy = "auto"
    /\ family = None
    /\ stem = <<"S">>
    /\ max_workers = 1

InitSmall ==
    /\ InitOf(SmallCoverages)
    /\ split_strategy = "auto"
    /\ family = None
    /\ stem = <<"S">>
    /\ max_workers = 1

\* lines 300-305: the plan of the chosen strategy
PlanRanges ==
    /\ pc = "plan"
    /\ ranges' = PlanOf(coverage, split_strategy)
    /\ pc' = "tasks"
    /\ UNCHANGED <<coverage, split_strategy, family, stem, max_workers,
                   tasks, fut, written, collected, created, css_records, css_file>>

\* lines 311-316: one task per range that holds a codepoint
PrepareTasks ==
    /\ pc = "tasks"
    /\ tasks' = TasksOf(ranges, coverage)
    /\ fut' = [j \in 1..Len(tasks') |-> "new"]
    /\ written' = [j \in 1..Len(tasks') |-> {}]
    /\ pc' = "submit"
    /\ UNCHANGED <<coverage, split_strategy, family, stem, max_workers,
                   ranges, collected, created, css_records, css_file>>

\* line 331: exe.submit of the next task, in task order
Submit ==
    /\ pc = "submit"
    /\ \E j \in Jobs :
        /\ fut[j] = "new"
        /\ \A i \in Jobs : i < j => fut[i] # "new"
        /\ fut' = [fut EXCEPT ![j] = "pending"]
    /\ UNCHANGED <<coverage, split_strategy, family, stem, max_workers,
                   pc, ranges, tasks, written, collected, created,
                   css_records, css_file>>

\* line 332: the dict is complete, as_completed starts
StartCollect ==
    /\ pc = "submit"
    /\ \A j \in Jobs : fut[j] # "new"
    /\ pc' = "collect"
    /\ UNCHANGED <<coverage, split_strategy, family, stem, max_workers,
                   ranges, tasks, fut, written, collected, created,
                   css_records, css_file>>

\* mutation: a thread is started for every queued job
WorkerStart_Unbounded ==
    /\ \E j \in Jobs :
        /\ fut[j] = "pending"
        /\ \A i \in Jobs : i < j => fut[i] # "pending"
        /\ fut' = [fut EXCEPT ![j] = "running"]
    /\ UNCHANGED <<coverage, split_strategy, family, stem, max_workers,
                   pc, ranges, tasks, written, collected, created,
                   css_records, css_file>>

\* a pool thread takes the oldest queued job; at most max_workers threads
WorkerStart ==
    /\ Cardinality({j \in Jobs : fut[j] = "running"}) < max_workers
    /\ \E j \in Jobs :
        /\ fut[j] = "pending"
        /\ \A i \in Jobs : i < j => fut[i] # "pending"
        /\ fut' = [fut EXCEPT ![j] = "running"]
    /\ UNCHANGED <<coverage, split_strategy, family, stem, max_workers,
                   pc, ranges, tasks, written, collected, created,
                   css_records, css_file>>

\* lines 322-328: _process runs to its return, both files are saved
WorkerDone ==
    /\ \E j \in Jobs :
        /\ fut[j] = "running"
        /\ fut' = [fut EXCEPT ![j] = "ok"]
        /\ written' = [written EXCEPT
                ![j] = Range(_save_as_woff_variants(OutBase(tasks[j].ur)))]
    /\ UNCHANGED <<coverage, split_strategy, family, stem, max_workers,
                   pc, ranges, tasks, collected, created, css_records, css_file>>

\* lines 322-328: _process raises, in _subset_font or in the first save
\* (nothing is written) or in the second save (the .woff2 is written)
WorkerFail ==
    /\ \E j \in Jobs :
        /\ fut[j] = "running"
        /\ fut' = [fut EXCEPT ![j] = "failed"]
        /\ \E n \in 0..1 :
            written' = [written EXCEPT
                ![j] = Range(SubSeq(_save_as_woff_variants(OutBase(tasks[j].ur)), 1, n))]
    /\ UNCHANGED <<coverage, split_strategy, family, stem, max_workers,
                   pc, ranges, tasks, collected, created, css_records, css_file>>

\* lines 332-335: as_completed yields a finished job that succeeded
CollectOk ==
    /\ pc = "collect"
    /\ \E j \in Jobs \ collected :
        /\ fut[j] = "ok"
        /\ collected' = collected \cup {j}
        /\ created' = created \o _save_as_woff_variants(OutBase(tasks[j].ur))
        /\ css_records' = Append(css_records,
                [stem |-> OutBase(tasks[j].ur), ur |-> tasks[j].ur])
    /\ UNCHANGED <<coverage, split_strategy, family, stem, max_workers,
                   pc, ranges, tasks, fut, written, css_file>>

\* line 333: as_completed yields a failed job, fut.result() raises
CollectRaise ==
    /\ pc = "collect"
    /\ \E j \in Jobs \ collected :
        /\ fut[j] = "failed"
        /\ collected' = collected \cup {j}
    /\ pc' = "exc"
    /\ UNCHANGED <<coverage, split_strategy, family, stem, max_workers,
                   ranges, tasks, fut, written, created, css_records, css_file>>

\* line 330: the with block of the executor is left, by the end of the
\* loop or by the exception, after the pool has drained
ExecutorExit ==
    /\ \/ pc = "collect" /\ collected = Jobs
       \/ pc = "exc"
    /\ PoolDrained
    /\ pc' = IF pc = "exc" THEN "raised" ELSE "emit"
    /\ UNCHANGED <<coverage, split_strategy, family, stem, max_workers,
                   ranges, tasks, fut, written, collected, created,
                   css_records, css_file>>

\* lines 337-339: the CSS file is written and the call returns
EmitCss ==
    /\ pc = "emit"
    /\ css_file' = _emit_css(css_records)
    /\ created' = Append(created, CssPath)
    /\ pc' = "returned"
    /\ UNCHANGED <<coverage, split_strategy, family, stem, max_workers,
                   ranges, tasks, fut, written, collected, css_records>>

Next ==
    \/ PlanRanges
    \/ PrepareTasks
    \/ Submit
    \/ StartCollect
    \/ WorkerStart
    \/ WorkerDone
    \/ WorkerFail
    \/ CollectOk
    \/ CollectRaise
    \/ ExecutorExit
    \/ EmitCss

Spec == Init /\ [][Next]_vars

NextPlan ==
    \/ PlanRanges
    \/ PrepareTasks

SpecPlan == InitPlan /\ [][NextPlan]_vars

SpecChunk == InitChunk /\ [][NextPlan]_vars

SpecSmall == InitSmall /\ [][NextPlan]_vars

(***************************************************************************)
(* Properties.                                                             *)
(***************************************************************************)
Planned == pc # "plan"

TasksReady == pc \notin {"plan", "tasks"}

Terminated == pc \in {"returned", "raised"}

Overlap(r1, r2) == r1.start <= r2.end /\ r2.start <= r1.end

\* the category tag of a range: its label up to the first hyphen
CategoryOf(ur) ==
    LET dashes == {i \in 1..Len(ur.label) : ur.label[i] = "-"} IN
    IF dashes = {} THEN ur.label ELSE SubSeq(ur.label, 1, SetMin(dashes) - 1)

\* C1: every codepoint of a non-empty coverage is in the codepoint set of
\* at least one job, under every strategy
C1_NoLoss ==
    (TasksReady /\ coverage # {}) =>
        \A cp \in coverage : \E j \in Jobs : cp \in tasks[j].unicodes

\* a plan of strategy auto over more than MAX_CHUNK_SIZE codepoints that
\* is cut into at least three jobs
C1_Witness ==
    /\ TasksReady
    /\ split_strategy = "auto"
    /\ Cardinality(coverage) > MAX_CHUNK_SIZE
    /\ Len(tasks) >= 3

\* C2: no codepoint is in the codepoint sets of two different jobs
C2_NoDuplication ==
    TasksReady =>
        \A i, j \in Jobs : i # j => tasks[i].unicodes \cap tasks[j].unicodes = {}

\* C3: all ranges of a plan are pairwise disjoint as [start,end] intervals
C3_RangesDisjoint ==
    Planned =>
        \A i, j \in 1..Len(ranges) : i # j => ~Overlap(ranges[i], ranges[j])

\* C3 as amended: two ranges of a plan that overlap as intervals carry
\* different category tags, and under by-256 they are the same 256-window
C3_OverlapOnlyAcrossCategories ==
    Planned =>
        \A i, j \in 1..Len(ranges) :
            (i # j /\ Overlap(ranges[i], ranges[j])) =>
                /\ CategoryOf(ranges[i]) # CategoryOf(ranges[j])
                /\ split_strategy = "by-256" =>
                    /\ ranges[i].start = ranges[j].start
                    /\ ranges[i].end = ranges[j].end

\* a plan with two ranges of one category and two overlapping ranges
C3_Witness ==
    /\ Planned
    /\ \E i, j \in 1..Len(ranges) :
        i # j /\ CategoryOf(ranges[i]) = CategoryOf(ranges[j])
    /\ \E i, j \in 1..Len(ranges) :
        i # j /\ Overlap(ranges[i], ranges[j])

\* the position in the plan of the range of a CSS record
PlanIndex(rec) == CHOOSE i \in 1..Len(ranges) : ranges[i] = rec.ur

\* C4: the records passed to _emit_css are in plan order
C4_CssInPlanOrder ==
    pc \in {"emit", "returned"} =>
        \A a, b \in 1..Len(css_records) :
            a < b => PlanIndex(css_records[a]) < PlanIndex(css_records[b])

\* C5: when some job fails and some job succeeds, a CSS file is written
\* with one rule per successful job and none for a failed one
C5_PartialFailureEmitsCss ==
    (/\ Terminated
     /\ \E j \in Jobs : fut[j] = "failed"
     /\ \E j \in Jobs : fut[j] = "ok") =>
        /\ css_file # None
        /\ Len(css_file) = Cardinality({j \in Jobs : fut[j] = "ok"})
        /\ \A j \in Jobs :
            fut[j] = "ok" <=>
                \E i \in 1..Len(css_file) :
                    css_file[i].unicode_range = to_css(tasks[j].ur)

\* C6: when jobs fail, the caller still receives the artifacts of the
\* successful jobs together with the report of the failures
C6_FailuresAggregated ==
    (Terminated /\ \E j \in Jobs : fut[j] = "failed") =>
        /\ pc = "returned"
        /\ \A j \in Jobs :
            fut[j] = "ok" =>
                Range(_save_as_woff_variants(OutBase(tasks[j].ur))) \subseteq Range(created)

\* C7: every job is submitted before a result is collected, and the call
\* neither returns nor raises before every submitted job has resolved
C7_FanInBarrier ==
    /\ (collected # {} \/ pc \notin {"plan", "tasks", "submit"}) =>
            \A j \in Jobs : fut[j] # "new"
    /\ pc \in {"emit", "returned", "raised"} =>
            \A j \in Jobs : fut[j] \in {"ok", "failed"}

\* the call has raised, and a sibling of the failed job that had not been
\* collected before the exception has nevertheless run to success
C7_Witness ==
    /\ pc = "raised"
    /\ \E j \in Jobs \ collected : fut[j] = "ok"

\* C8: two different jobs never write the same file, and a successful job
\* writes exactly {family}-{label}.woff2 and {family}-{label}.woff
C8_NoWriteConflicts ==
    /\ \A i, j \in Jobs : i # j => written[i] \cap written[j] = {}
    /\ \A j \in Jobs :
        fut[j] = "ok" =>
            written[j] = {OutBase(tasks[j].ur) \o ExtWoff2,
                          OutBase(tasks[j].ur) \o ExtWoff}

\* C9: the two url() entries of every rule of the CSS file name exactly
\* the two files that the rule's job wrote
C9_CssReferencesWrittenFiles ==
    pc = "returned" =>
        \A i \in 1..Len(css_file) :
            \E j \in Jobs :
                /\ tasks[j].ur = css_records[i].ur
                /\ {css_file[i].url_woff2, css_file[i].url_woff} = written[j]

\* the 256-aligned blocks that hold a visible and an invisible codepoint
MixedBlocks ==
    {BlockStart(cp) : cp \in
        {c \in coverage :
            \E d \in coverage :
                /\ BlockStart(d) = BlockStart(c)
                /\ _is_private_or_invisible(c) # _is_private_or_invisible(d)}}

\* C10: under by-256 a block with visible and invisible codepoints yields
\* exactly two ranges over its window, vis- and invis-, whose jobs process
\* only the visible and only the invisible codepoints of the block
C10_MixedBlockSplit ==
    (TasksReady /\ split_strategy = "by-256") =>
        \A b \in MixedBlocks :
            LET J == {j \in Jobs : tasks[j].ur.start = b} IN
            /\ Cardinality(J) = 2
            /\ \A j \in J : tasks[j].ur.end = b + 255
            /\ \E j \in J :
                /\ CategoryOf(tasks[j].ur) = PrefixVis
                /\ tasks[j].unicodes =
                    {cp \in coverage : BlockStart(cp) = b /\ ~_is_private_or_invisible(cp)}
            /\ \E j \in J :
                /\ CategoryOf(tasks[j].ur) = PrefixInvis
                /\ tasks[j].unicodes =
                    {cp \in coverage : BlockStart(cp) = b /\ _is_private_or_invisible(cp)}

\* C11: no two ranges of a plan carry the same label
C11_LabelsUnique ==
    Planned =>
        \A i, j \in 1..Len(ranges) : i # j => ranges[i].label # ranges[j].label

\* a by-256 plan with a vis- and an invis- range over the same window, or
\* an auto plan with two ranges of one category
C11_Witness ==
    /\ Planned
    /\ \E i, j \in 1..Len(ranges) :
        /\ i # j
        /\ ranges[i].start = ranges[j].start
        /\ ranges[i].end = ranges[j].end
    /\ Len(ranges) >= 3

\* C12: for an empty coverage the plan of every strategy is exactly one
\* range, and the call completes without raising
C12_EmptyCoverageOneRange ==
    (Planned /\ coverage = {}) =>
        /\ Len(ranges) = 1
        /\ pc # "raised"

\* C13: strategy none yields exactly one range, labeled full, from the
\* least to the greatest codepoint of the coverage, and [0,0xFFFF] when
\* the coverage is empty
C13_NoneSingleFullRange ==
    (Planned /\ split_strategy = "none") =>
        /\ Len(ranges) = 1
        /\ ranges[1].label = LabelFull
        /\ coverage = {} => (ranges[1].start = 0 /\ ranges[1].end = 65535)
        /\ coverage # {} =>
            /\ ranges[1].start \in coverage
            /\ ranges[1].end \in coverage
            /\ \A cp \in coverage : ranges[1].start <= cp /\ cp <= ranges[1].end

\* a none plan over a coverage with a gap between its least and greatest
\* codepoint
C13_Witness ==
    /\ Planned
    /\ split_strategy = "none"
    /\ Cardinality(coverage) >= 3
    /\ ranges[1].end - ranges[1].start + 1 > Cardinality(coverage)

PassPrefixes == <<PrefixLatin, PrefixHan, PrefixVis, PrefixInvis>>

\* the pass that the category tag of a range names
PassRank(ur) == CHOOSE k \in 1..4 : PassPrefixes[k] = CategoryOf(ur)

\* the pass a codepoint belongs to by its classification
ExpectedPass(cp) ==
    IF _is_private_or_invisible(cp) THEN 4
    ELSE IF (32 <= cp /\ cp <= 126) \/ (160 <= cp /\ cp <= 383) THEN 1
    ELSE IF _is_han(cp) THEN 2
    ELSE 3

\* C14: under auto every coverage codepoint is assigned to exactly one of
\* the four passes, passes 1-3 hold no invisible codepoint, and the plan is
\* the passes' ranges in pass order, each pass in ascending start order
C14_AutoPasses ==
    (Planned /\ split_strategy = "auto") =>
        LET p == AutoPasses(coverage) IN
        /\ \A cp \in coverage :
            \A k \in 1..4 : cp \in p[k] <=> k = ExpectedPass(cp)
        /\ \A k \in 1..3 : \A cp \in p[k] : ~_is_private_or_invisible(cp)
        /\ \A i, j \in 1..Len(ranges) :
            i < j =>
                \/ PassRank(ranges[i]) < PassRank(ranges[j])
                \/ /\ PassRank(ranges[i]) = PassRank(ranges[j])
                   /\ ranges[i].start < ranges[j].start
        /\ \A cp \in coverage :
            Cardinality({i \in 1..Len(ranges) :
                /\ PassRank(ranges[i]) = ExpectedPass(cp)
                /\ ranges[i].start <= cp /\ cp <= ranges[i].end}) = 1
        /\ \A i \in 1..Len(ranges) :
            \E cp \in p[PassRank(ranges[i])] :
                ranges[i].start <= cp /\ cp <= ranges[i].end

\* an auto plan in which all four passes emit a range
C14_Witness ==
    /\ Planned
    /\ split_strategy = "auto"
    /\ \A k \in 1..4 : \E i \in 1..Len(ranges) : PassRank(ranges[i]) = k

\* C16: in a plan of auto or by-256, two ranges with the same label
\* prefix have disjoint [start,end] intervals
C16_SameCategoryDisjoint ==
    (Planned /\ split_strategy \in {"auto", "by-256"}) =>
        \A i, j \in 1..Len(ranges) :
            (i # j /\ CategoryOf(ranges[i]) = CategoryOf(ranges[j])) =>
                (ranges[i].end < ranges[j].start \/ ranges[j].end < ranges[i].start)

\* an auto plan with two adjacent han- ranges cut by the size cap
C16_Witness ==
    /\ Planned
    /\ split_strategy = "auto"
    /\ \E i, j \in 1..Len(ranges) :
        /\ CategoryOf(ranges[i]) = PrefixHan
        /\ CategoryOf(ranges[j]) = PrefixHan
        /\ ranges[j].start = ranges[i].end + 1

\* C17: the number of jobs that execute at the same time is at most the
\* pool size and at most the number of planned ranges that hold a codepoint
C17_BoundedConcurrency ==
    LET running == {j \in Jobs : fut[j] = "running"}
        nonempty == {i \in 1..Len(ranges) :
                        \E cp \in coverage :
                            ranges[i].start <= cp /\ cp <= ranges[i].end}
    IN  /\ Cardinality(running) <= max_workers
        /\ Cardinality(running) <= Cardinality(nonempty)

\* the pool is full and a third job waits in the queue
C17_Witness ==
    /\ Cardinality({j \in Jobs : fut[j] = "running"}) = max_workers
    /\ max_workers >= 2
    /\ \E j \in Jobs : fut[j] = "pending"

\* C18: the job of every latin- and han- range of an auto plan receives at
\* most MAX_CHUNK_SIZE codepoints
C18_ChunkJobSizeCap ==
    (TasksReady /\ split_strategy = "auto") =>
        \A j \in Jobs :
            CategoryOf(tasks[j].ur) \in {PrefixLatin, PrefixHan} =>
                Cardinality(tasks[j].unicodes) <= MAX_CHUNK_SIZE

\* the number of codepoints of a pass inside a range: the size of the group
GroupSize(S, ur) == Cardinality({cp \in S : ur.start <= cp /\ cp <= ur.end})

\* the length of the capped contiguous run of S that starts at codepoint a
RunLengthAt(S, a) ==
    LET stop == {n \in 1..MAX_CHUNK_SIZE : (a + n) \notin S} IN
    IF stop = {} THEN MAX_CHUNK_SIZE ELSE SetMin(stop)

\* C19: a latin- or han- group of fewer than MIN_CHUNK_SIZE codepoints is
\* the last group of its partition, or absorbing the contiguous run that
\* follows it would exceed MAX_CHUNK_SIZE
C19_MinimumSizeRule ==
    (Planned /\ split_strategy = "auto") =>
        \A i \in 1..Len(ranges) :
            LET k == PassRank(ranges[i])
                S == AutoPasses(coverage)[k]
            IN  (k \in {1, 2} /\ GroupSize(S, ranges[i]) < MIN_CHUNK_SIZE) =>
                    \/ i = Len(ranges)
                    \/ PassRank(ranges[i + 1]) # k
                    \/ GroupSize(S, ranges[i]) + RunLengthAt(S, ranges[i + 1].start)
                            > MAX_CHUNK_SIZE

\* a group below MIN_CHUNK_SIZE that is followed by a group of its
\* partition which it could not absorb
C19_Witness ==
    /\ Planned
    /\ split_strategy = "auto"
    /\ \E i \in 1..(Len(ranges) - 1) :
        /\ PassRank(ranges[i]) \in {1, 2}
        /\ PassRank(ranges[i + 1]) = PassRank(ranges[i])
        /\ GroupSize(AutoPasses(coverage)[PassRank(ranges[i])], ranges[i]) < MIN_CHUNK_SIZE

\* C20: a single contiguous run of n > MAX_CHUNK_SIZE codepoints is cut
\* into consecutive groups of exactly MAX_CHUNK_SIZE codepoints followed by
\* the remainder, which is never merged into the group before it
C20_RunCapping ==
    Planned =>
        LET n == Cardinality(coverage)
            a == SetMin(coverage)
            full == n \div MAX_CHUNK_SIZE
            rest == n % MAX_CHUNK_SIZE
        IN  /\ Len(ranges) = full + (IF rest = 0 THEN 0 ELSE 1)
            /\ \A k \in 1..Len(ranges) :
                /\ CategoryOf(ranges[k]) = PrefixHan
                /\ ranges[k].start = a + MAX_CHUNK_SIZE * (k - 1)
                /\ ranges[k].end - ranges[k].start + 1 =
                        (IF k <= full THEN MAX_CHUNK_SIZE ELSE rest)

\* the run of 301 codepoints from 0x4E00: groups of 300 and 1
C20_Witness ==
    /\ Planned
    /\ coverage = 19968..20268
    /\ Len(ranges) = 2
    /\ ranges[1].end - ranges[1].start + 1 = MAX_CHUNK_SIZE
    /\ ranges[2].start = ranges[2].end

\* C21: a non-empty input of the chunk partitioner of fewer than
\* MIN_CHUNK_SIZE codepoints, however sparse, gives exactly one range, from
\* its least to its greatest codepoint; an empty input gives no range
C21_SmallInputOneRange ==
    (Planned /\ split_strategy = "auto") =>
        \A k \in {1, 2} :
            LET S == AutoPasses(coverage)[k]
                R == {i \in 1..Len(ranges) : PassRank(ranges[i]) = k}
            IN  /\ S = {} => R = {}
                /\ (S # {} /\ Cardinality(S) < MIN_CHUNK_SIZE) =>
                    /\ Cardinality(R) = 1
                    /\ \A i \in R :
                        /\ ranges[i].start \in S
                        /\ ranges[i].end \in S
                        /\ \A cp \in S : ranges[i].start <= cp /\ cp <= ranges[i].end

\* the input {0x41..0x43, 0x46} has given the single range [0x41,0x46]
C21_Witness ==
    /\ Planned
    /\ coverage = {65, 66, 67, 70}
    /\ Len(ranges) = 1
    /\ ranges[1].start = 65
    /\ ranges[1].end = 70

====
